---- MODULE Spec2Model ----
(***************************************************************************)
(* GSAP-GPT playground: the App component's React state (element list,     *)
(* step list, chat history, selection, loading flag, theme), the           *)
(* ElementManager / PresetsPanel / ChatInterface handlers that update it,  *)
(* and the geminiService client (sendMessageToAI) the chat talks to.       *)
(*                                                                         *)
(* One action per event handler.  React flushes the state updates of a     *)
(* discrete event (click, key press, resolved promise continuation) before *)
(* the next event is handled, so each handler is one atomic step and the   *)
(* props a handler closes over are the state committed by the step before. *)
(***************************************************************************)
EXTENDS Integers, Sequences, FiniteSets, TLC

VARIABLES
    elements,            \* useState<StageElement[]>           (App)
    selectedElementId,   \* useState<string | null>            (App)
    animationSteps,      \* useState<AnimationStep[]>          (App)
    isLoading,           \* useState(false)                    (App)
    chatHistory,         \* useState<ChatMessage[]>            (App)
    theme,               \* useState(localStorage 'theme' || 'dark')
    storedTheme,         \* localStorage.getItem('theme')
    chat,                \* module variable `chat` of the service
    calls,               \* handleSendMessage invocations suspended at the await
    gestures,            \* history: clicks, drags, edits and sends of the user so far
    sent,                \* history: handleSendMessage invocations so far
    requests,            \* history: chat.sendMessage calls so far
    rejected,            \* history: handleSendMessage promises that rejected
    editedWhilePending,  \* history: an interactive edit happened during the last request
    loads,               \* history: page loads so far
    svc,                 \* one sendMessageToAI call observed on its own
    gsapCode,            \* one formatGSAPCode call observed on its own
    sortCall,            \* one handleSort call observed on its own
    timelineRef,         \* timelineRef.current: the timeline it holds, or none
    liveTimelines,       \* gsap timelines created and not killed
    scrollTriggers,      \* live ScrollTrigger-driven animations (ScrollTrigger.getAll())
    isScrollPreview,     \* useState(false)                    (App)
    isPlaying            \* useState(false)                    (App of src/App.tsx)

vars == << elements, selectedElementId, animationSteps, isLoading, chatHistory,
           theme, storedTheme, chat, calls, gestures, sent, requests, rejected,
           editedWhilePending, loads, svc, gsapCode, sortCall,
           timelineRef, liveTimelines, scrollTriggers, isScrollPreview, isPlaying >>

(***************************************************************************)
(* Bounds of the model.                                                    *)
(***************************************************************************)
MaxElements == 2
MaxSteps == 2
MaxGestures == 3
MaxClock == 1
MaxLoads == 2

(***************************************************************************)
(* Values.                                                                 *)
(***************************************************************************)
Null == "null"                       \* selectedElementId = null, chat = null
NoTheme == "none"                    \* localStorage holds no 'theme' key

ElementTypes == {"box", "text"}      \* the ElementType values the model draws
DefaultX == 50
EditXs == {90}                       \* positions a drag or the X input sets

Messages == {"", " ", "spin it"}     \* chat inputs: empty, blank, text
RenameIds == {"", "hero", "box-1"}   \* values typed in the ID input

Greeting == [role |-> "model", text |-> "Ready to animate? Tell me what to add or change. Try 'add a blue circle'."]
ErrorExplanation == "Sorry, I encountered an error trying to process that. The AI's response might have been malformed. Please try phrasing your request differently."
Apology == "I'm sorry, something went wrong while applying the changes. This is likely due to a malformed response from the AI. Please check the console for details and try again."

\* message.trim(): the inputs that are all white space trim to the empty string
Trim(message) == IF message \in {"", " "} THEN "" ELSE message

\* { ...el, ...newProps }
Merge(el, newProps) ==
    [k \in DOMAIN el \cup DOMAIN newProps |->
        IF k \in DOMAIN newProps THEN newProps[k] ELSE el[k]]

\* `#${id}`
IdSelector(id) == "#" \o id

\* prev.map(el => el.id === id ? { ...el, ...newProps } : el)
UpdateById(els, id, newProps) ==
    [i \in 1..Len(els) |-> IF els[i].id = id THEN Merge(els[i], newProps) ELSE els[i]]

\* (variant: every step is pointed at the new id)
Retarget_all(steps, from, to) ==
    [i \in 1..Len(steps) |-> Merge(steps[i], [target |-> to])]

\* prev.map(step => ({ ...step, target: step.target === from ? to : step.target }))
Retarget(steps, from, to) ==
    [i \in 1..Len(steps) |->
        Merge(steps[i], [target |-> IF steps[i].target = from THEN to ELSE steps[i].target])]

\* prev.filter(el => el.id !== id)
RECURSIVE RemoveById(_, _)
RemoveById(els, id) ==
    IF els = << >> THEN << >>
    ELSE IF Head(els).id # id THEN << Head(els) >> \o RemoveById(Tail(els), id)
         ELSE RemoveById(Tail(els), id)

\* elements.some(el => el.id === id)
HasId(els, id) == \E i \in 1..Len(els) : els[i].id = id

\* newElements.findIndex(e => e.id === id), 0 for -1
FindIndex(els, id) ==
    IF HasId(els, id) THEN CHOOSE i \in 1..Len(els) :
                                /\ els[i].id = id
                                /\ \A j \in 1..(i - 1) : els[j].id # id
    ELSE 0

(***************************************************************************)
(* The values a model reply can parse to.  Nothing validates a reply       *)
(* against the declared schema, so a field may be missing (not in the      *)
(* record's DOMAIN) and an array field may hold a non-array.  An array     *)
(* field is wrapped so that Array.isArray can be asked of it.              *)
(***************************************************************************)
Arr(items) == [array |-> TRUE, items |-> items]
NotAnArray == [array |-> FALSE]
IsArray(r, field) == field \in DOMAIN r /\ r[field].array

JsonNull == [null |-> TRUE]                  \* JSON.parse("null")
IsNull(r) == "null" \in DOMAIN r

\* aiResponse.response_type === t
HasType(r, t) == "response_type" \in DOMAIN r /\ r.response_type = t
\* if (aiResponse.explanation)
HasExplanation(r) == "explanation" \in DOMAIN r /\ r.explanation # ""

Element(id, type, x) == [id |-> id, type |-> type, x |-> x]
Step(target, scrollTrigger, position, rest) ==
    [target |-> target, scrollTrigger |-> scrollTrigger, position |-> position, vars |-> rest]

\* elements, steps and modifications a reply may carry
AiBox == Element("ai-1", "box", DefaultX)
AiTwin == Element("box-1", "box", 90)        \* an id the user's box may have too
AiSpin == Step("#box-1", FALSE, "", "spin")
AiScroll == Step(".box", TRUE, "", "fade")
AiMove == [id |-> "box-1", props |-> [x |-> 90]]
AiRetag == [id |-> "ai-1", props |-> [id |-> "box-1"]]

Animation(explanation, steps) ==
    [response_type |-> "animation", explanation |-> explanation, animation_steps |-> steps]

ParsedValues ==
    { JsonNull,
      [explanation |-> "Okay."],
      [response_type |-> "clarification", explanation |-> "Okay."],
      [response_type |-> "clarification", explanation |-> "",
       animation_steps |-> Arr(<< AiSpin >>)],
      [response_type |-> "error", explanation |-> "Okay.",
       animation_steps |-> Arr(<< AiSpin >>)],
      [response_type |-> "element_creation", explanation |-> "Okay."],
      [response_type |-> "element_creation", explanation |-> "Okay.",
       animation_steps |-> Arr(<< AiScroll >>)],
      [response_type |-> "animation", explanation |-> "Okay."],
      Animation("Okay.", NotAnArray),
      Animation("Okay.", Arr(<< >>)),
      Animation("Okay.", Arr(<< AiSpin >>)),
      Animation("", Arr(<< AiSpin >>)),
      Animation("Okay.", Arr(<< AiSpin, AiScroll >>)) }
    \cup { [response_type |-> "element_creation", explanation |-> "Okay.", new_elements |-> a] :
             a \in { NotAnArray, Arr(<< AiBox >>), Arr(<< AiTwin >>), Arr(<< AiBox, AiTwin >>) } }
    \cup { [response_type |-> "element_modification", explanation |-> "Okay.", modified_elements |-> a] :
             a \in { NotAnArray, Arr(<< AiMove >>), Arr(<< AiRetag, AiMove >>) } }

(***************************************************************************)
(* What chat.sendMessage can do: reject, or resolve with a text.  The text *)
(* is known by what sendMessageToAI asks of it: whether it is there,       *)
(* whether (trimmed) it starts with { and ends with }, whether it holds a  *)
(* ```json fenced block, and what JSON.parse makes of the part parsed.     *)
(***************************************************************************)
Parses(v) == [ok |-> TRUE, value |-> v]
SyntaxError == [ok |-> FALSE]

Replies ==
    { [status |-> "rejected"],
      [status |-> "resolved", shape |-> "undefined"],
      [status |-> "resolved", shape |-> "prose"],
      [status |-> "resolved", shape |-> "braces", json |-> SyntaxError],
      [status |-> "resolved", shape |-> "fenced", json |-> SyntaxError],
      [status |-> "resolved", shape |-> "fenced", json |-> Parses(JsonNull)],
      [status |-> "resolved", shape |-> "fenced",
       json |-> Parses(Animation("Okay.", Arr(<< AiSpin >>)))] }
    \cup { [status |-> "resolved", shape |-> "braces", json |-> Parses(v)] :
             v \in ParsedValues \ { JsonNull } }

\* the catch block of sendMessageToAI
ErrorResponse(message) ==
    [response_type |-> "error", explanation |-> ErrorExplanation, error_message |-> message]

\* the try block of sendMessageToAI: what it returns, or the error it throws
Returns(v) == [thrown |-> FALSE, value |-> v]
Throws(message) == [thrown |-> TRUE, error |-> message]

TryBody(reply) ==
    IF reply.status = "rejected" THEN Throws("fetch failed")
    ELSE IF reply.shape = "undefined" THEN Throws("Cannot read properties of undefined")
    ELSE IF reply.shape = "braces"
         THEN IF reply.json.ok THEN Returns(reply.json.value)
              ELSE Throws("Unexpected token")
    ELSE IF reply.shape = "fenced"
         THEN IF reply.json.ok THEN Returns(reply.json.value)
              ELSE Throws("Unexpected token")
    ELSE Throws("AI did not return valid JSON.")

\* how the promise of sendMessageToAI settles once the request has settled
Fulfilled(v) == [fulfilled |-> TRUE, value |-> v]
Rejected(message) == [fulfilled |-> FALSE, error |-> message]

\* (variant: the catch block lets the error through)
Settle_rethrow(reply) ==
    LET tried == TryBody(reply) IN
    IF tried.thrown THEN Rejected(tried.error)
    ELSE Fulfilled(tried.value)

Settle(reply) ==
    LET tried == TryBody(reply) IN
    IF tried.thrown THEN Fulfilled(ErrorResponse(tried.error))
    ELSE Fulfilled(tried.value)

(***************************************************************************)
(* sendMessageToAI up to its await: initialise the chat session when there *)
(* is none (the constructor or chats.create may throw: both are outside    *)
(* the try), refuse an empty message, then issue the one request.          *)
(***************************************************************************)
\* (variant: the request is issued again when it fails)
RequestsPerCall_retry == 1 + 1

\* the number of chat.sendMessage calls one sendMessageToAI call makes
RequestsPerCall == 1

StartCall(chatState, message, initThrows) ==
    IF chatState = Null /\ initThrows
    THEN [chat |-> Null, thrown |-> TRUE, requests |-> 0]
    ELSE IF Trim(message) = ""
    THEN [chat |-> "session", thrown |-> TRUE, requests |-> 0]
    ELSE [chat |-> "session", thrown |-> FALSE, requests |-> RequestsPerCall]

(***************************************************************************)
(* The state updates of handleSendMessage after the await.  Each is a      *)
(* functional update: `prev` is the state at the moment it is applied.     *)
(* The values the handler closed over when the message was sent (elements, *)
(* selectedElementId, animationSteps) went into the prompt before the      *)
(* await and are not read after it.                                        *)
(***************************************************************************)
\* (variant: setElements(aiResponse.new_elements))
AppendNewElements_replace(prev, r) == r.new_elements.items

\* setElements(prev => [...prev, ...aiResponse.new_elements!])
AppendNewElements(prev, r) == prev \o r.new_elements.items

\* newElements[elementIndex] = { ...newElements[elementIndex], ...mod.props }
ApplyMod(els, mod) ==
    LET elementIndex == FindIndex(els, mod.id) IN
    IF elementIndex > 0
    THEN [els EXCEPT ![elementIndex] = Merge(els[elementIndex], mod.props)]
    ELSE els

\* aiResponse.modified_elements!.forEach(mod => ...) on a copy of prev
RECURSIVE ApplyMods(_, _)
ApplyMods(els, mods) ==
    IF mods = << >> THEN els
    ELSE ApplyMods(ApplyMod(els, Head(mods)), Tail(mods))

ModifyElements(prev, r) == ApplyMods(prev, r.modified_elements.items)

\* (variant: setAnimationSteps(aiResponse.animation_steps))
AppendSteps_replace(prev, r) == r.animation_steps.items

\* setAnimationSteps(prev => [...prev, ...aiResponse.animation_steps!])
AppendSteps(prev, r) == prev \o r.animation_steps.items

\* (variant: new elements whose id is taken are dropped)
RECURSIVE AddUnique(_, _)
AddUnique(els, new) ==
    IF new = << >> THEN els
    ELSE AddUnique(IF HasId(els, Head(new).id) THEN els ELSE Append(els, Head(new)), Tail(new))

ElementsAfter_validated(prev, r) ==
    LET created == IF HasType(r, "element_creation") /\ IsArray(r, "new_elements")
                   THEN AddUnique(prev, r.new_elements.items) ELSE prev
    IN  IF HasType(r, "element_modification") /\ IsArray(r, "modified_elements")
        THEN ApplyMods(created, r.modified_elements.items) ELSE created

\* the element list after the handler's two setElements branches
ElementsAfter(prev, r) ==
    LET created == IF HasType(r, "element_creation") /\ IsArray(r, "new_elements")
                   THEN AppendNewElements(prev, r) ELSE prev
    IN  IF HasType(r, "element_modification") /\ IsArray(r, "modified_elements")
        THEN ModifyElements(created, r) ELSE created

\* (variant: any other response clears the steps)
StepsAfter_clearOtherwise(prev, r) ==
    IF /\ HasType(r, "animation")
       /\ IsArray(r, "animation_steps")
       /\ Len(r.animation_steps.items) > 0
    THEN prev \o r.animation_steps.items
    ELSE << >>

\* the step list after the handler's setAnimationSteps branch
StepsAfter(prev, r) ==
    IF /\ HasType(r, "animation")
       /\ IsArray(r, "animation_steps")
       /\ Len(r.animation_steps.items) > 0
    THEN AppendSteps(prev, r)
    ELSE prev

\* (variant: the model's message is put in front of the history)
ChatAfter_newestFirst(prev, r) ==
    IF IsNull(r) THEN << [role |-> "model", text |-> Apology] >> \o prev
    ELSE IF HasExplanation(r) THEN << [role |-> "model", text |-> r.explanation] >> \o prev
    ELSE prev

\* the chat history after the handler's try / catch
ChatAfter(prev, r) ==
    IF IsNull(r) THEN Append(prev, [role |-> "model", text |-> Apology])
    ELSE IF HasExplanation(r) THEN Append(prev, [role |-> "model", text |-> r.explanation])
    ELSE prev

(***************************************************************************)
(* The timeline effect of App: on every change of animationSteps, elements *)
(* or isScrollPreview the previous timeline and every ScrollTrigger are    *)
(* killed (by the cleanup of the previous run and again by the effect), a  *)
(* paused timeline is built from the steps without vars.scrollTrigger and  *)
(* one scroll-triggered gsap.to is created per step with it.               *)
(***************************************************************************)
NoTimeline == [none |-> TRUE]                \* timelineRef.current = null
HasTimeline(ref) == "none" \notin DOMAIN ref

\* animationSteps.filter(step => !!step.vars.scrollTrigger === scroll)
RECURSIVE SelectSteps(_, _)
SelectSteps(steps, scroll) ==
    IF steps = << >> THEN << >>
    ELSE IF Head(steps).scrollTrigger = scroll
         THEN << Head(steps) >> \o SelectSteps(Tail(steps), scroll)
         ELSE SelectSteps(Tail(steps), scroll)

\* (variant: the timeline takes every step)
TimelineAnims_all(steps) == steps

\* const timelineAnims = animationSteps.filter(step => !step.vars.scrollTrigger)
TimelineAnims(steps) == SelectSteps(steps, FALSE)

\* const scrollAnims = animationSteps.filter(step => step.vars.scrollTrigger)
ScrollAnims(steps) == SelectSteps(steps, TRUE)

\* gsap.timeline({ paused: true, ... }) with tl.to(...) for each step
PausedTimeline(steps) == [steps |-> steps, state |-> "paused"]

\* gsap.to(step.target, { ...step.vars, scrollTrigger: { ..., scroller } })
ScrollTween(step, preview) == [step |-> step, scroller |-> IF preview THEN "#stage-parent" ELSE "window"]
ScrollTweens(steps, preview) == [k \in 1..Len(steps) |-> ScrollTween(steps[k], preview)]

\* (variant: the effect does not kill the previous timeline)
LiveAfterKill_noKill(live, ref) == live

\* timelineRef.current?.kill()
LiveAfterKill(live, ref) == IF HasTimeline(ref) THEN live - 1 ELSE live

(***************************************************************************)
(* formatGSAPCode: the exported code, as the list of the statements of its *)
(* text in their order.  A statement is known by its kind, the target and  *)
(* vars it prints, and the position argument when one is printed.          *)
(***************************************************************************)
Placeholder == [kind |-> "comment", text |-> "// No animation steps generated yet."]

\* step.vars.text
HasTextVars(step) == step.vars = "typewriter"

\* `gsap.registerPlugin(...)` when a step needs a plugin
Header(steps) ==
    LET hasScrollTrigger == \E k \in 1..Len(steps) : steps[k].scrollTrigger
        hasTextPlugin == \E k \in 1..Len(steps) : HasTextVars(steps[k])
    IN  IF hasScrollTrigger \/ hasTextPlugin
        THEN << [kind |-> "registerPlugin",
                 plugins |-> (IF hasScrollTrigger THEN << "ScrollTrigger" >> ELSE << >>)
                             \o (IF hasTextPlugin THEN << "TextPlugin" >> ELSE << >>)] >>
        ELSE << >>

\* (variant: the position argument is printed for every step)
TimelineStatement_everyPosition(step) ==
    [kind |-> "tl.to", target |-> step.target, vars |-> step.vars,
     scrollTrigger |-> step.scrollTrigger, position |-> step.position]

\* `tl.to("${step.target}", ${varsString}${positionString});`
TimelineStatement(step) ==
    IF step.position # ""
    THEN [kind |-> "tl.to", target |-> step.target, vars |-> step.vars,
          scrollTrigger |-> step.scrollTrigger, position |-> step.position]
    ELSE [kind |-> "tl.to", target |-> step.target, vars |-> step.vars,
          scrollTrigger |-> step.scrollTrigger]

\* `gsap.to("${step.target}", ${varsString});`
ScrollStatement(step) ==
    [kind |-> "gsap.to", target |-> step.target, vars |-> step.vars,
     scrollTrigger |-> step.scrollTrigger]

\* steps.filter(step => !step.vars.scrollTrigger).map(...)
RECURSIVE TimelineStatements(_)
TimelineStatements(steps) ==
    IF steps = << >> THEN << >>
    ELSE IF ~Head(steps).scrollTrigger
         THEN << TimelineStatement(Head(steps)) >> \o TimelineStatements(Tail(steps))
         ELSE TimelineStatements(Tail(steps))

\* steps.filter(step => step.vars.scrollTrigger).map(...)
RECURSIVE ScrollStatements(_)
ScrollStatements(steps) ==
    IF steps = << >> THEN << >>
    ELSE IF Head(steps).scrollTrigger
         THEN << ScrollStatement(Head(steps)) >> \o ScrollStatements(Tail(steps))
         ELSE ScrollStatements(Tail(steps))

\* the argument of formatGSAPCode: a step list, or none (what `!steps` tests)
NoSteps == [given |-> FALSE]
StepList(steps) == [given |-> TRUE, steps |-> steps]

formatGSAPCode(arg) ==
    IF ~arg.given \/ arg.steps = << >> THEN << Placeholder >>
    ELSE LET steps == arg.steps
             timelineSteps == TimelineStatements(steps)
             scrollTriggerSteps == ScrollStatements(steps)
         IN  Header(steps)
             \o (IF timelineSteps # << >>
                 THEN << [kind |-> "const tl = gsap.timeline()"] >> \o timelineSteps
                 ELSE << >>)
             \o scrollTriggerSteps

(***************************************************************************)
(* The presets PresetsPanel builds for the selected element: of its two    *)
(* text presets and two scroll presets the model draws one each.           *)
(***************************************************************************)
TextPresets == { "Stagger Fade In" }
ScrollPresets == { "Fade In on Scroll" }

Preset(name, el) ==
    CASE name = "Stagger Fade In"    -> Step(IdSelector(el.id), FALSE, "+=0.5", "stagger")
      [] name = "Fade In on Scroll"  -> Step(IdSelector(el.id), TRUE, "", "fadeIn")

\* elements.find(el => el.id === selectedElementId): its index, 0 for undefined
SelectedIndex == IF selectedElementId = Null THEN 0 ELSE FindIndex(elements, selectedElementId)

\* (variant: the guard forgets the loading flag)
CanSend_ignoreLoading(input, loading) == Trim(input) # ""

\* the ChatInterface guard: input.trim() && !isLoading
CanSend(input, loading) == Trim(input) # "" /\ ~loading

\* theme state after toggleTheme
Toggled(t) == IF t = "dark" THEN "light" ELSE "dark"

\* (variant: the stored theme is not read)
InitialTheme_ignoreStored(stored) == "dark"

\* useState(localStorage.getItem('theme') || 'dark')
InitialTheme(stored) == IF stored = NoTheme THEN "dark" ELSE stored

IdleService == [phase |-> "idle"]
NotCalled == [phase |-> "idle"]

(***************************************************************************)
(* The state after the page has loaded and App has mounted.                *)
(***************************************************************************)
Mounted(stored) ==
    /\ elements = << >>
    /\ selectedElementId = Null
    /\ animationSteps = << >>
    /\ isLoading = FALSE
    /\ chatHistory = << Greeting >>
    /\ theme = InitialTheme(stored)
    /\ storedTheme = InitialTheme(stored)      \* the [theme] effect has run
    /\ chat = Null
    /\ calls = << >>
    /\ isScrollPreview = FALSE
    /\ isPlaying = FALSE
    /\ timelineRef = PausedTimeline(<< >>)     \* the timeline effect has run
    /\ liveTimelines = 1
    /\ scrollTriggers = << >>

Fresh ==
    /\ gestures = 0
    /\ sent = 0
    /\ requests = 0
    /\ rejected = 0
    /\ editedWhilePending = FALSE
    /\ svc = IdleService
    /\ gsapCode = NotCalled
    /\ sortCall = NotCalled

\* a first visit: nothing is stored
Init == Mounted(NoTheme) /\ Fresh /\ loads = 1

history == << sent, requests, rejected, loads, svc, gsapCode, sortCall >>
themeVars == << theme, storedTheme >>
serviceVars == << chat, calls >>

\* one more click, drag or key press of the user
Gesture == gestures < MaxGestures /\ gestures' = gestures + 1

\* an interactive edit: note whether a request was pending when it was made
Edit == Gesture /\ editedWhilePending' = (editedWhilePending \/ calls # << >>)

\* the timeline effect runs: a dependency (animationSteps, elements,
\* isScrollPreview) was set in this step
TimelineEffect ==
    /\ timelineRef' = PausedTimeline(TimelineAnims(animationSteps'))
    /\ liveTimelines' = LiveAfterKill(liveTimelines, timelineRef) + 1
    /\ scrollTriggers' = ScrollTweens(ScrollAnims(animationSteps'), isScrollPreview')

\* no dependency of the timeline effect was set in this step
NoTimelineEffect == UNCHANGED << timelineRef, liveTimelines, scrollTriggers >>

\* the state only src/App.tsx changes, and the flag only its own toggle does
stageVars == << isScrollPreview, isPlaying >>

(***************************************************************************)
(* ElementManager                                                          *)
(***************************************************************************)
\* `stamp` is what Date.now() returns
AddElement(type, stamp) ==
    /\ Len(elements) < MaxElements
    /\ LET newElement == Element(type \o "-" \o ToString(stamp), type, DefaultX) IN
        /\ elements' = Append(elements, newElement)
        /\ selectedElementId' = newElement.id
    /\ Edit
    /\ UNCHANGED << animationSteps, isLoading, chatHistory >>
    /\ UNCHANGED << history, themeVars, serviceVars, stageVars >>
    /\ TimelineEffect

RemoveElement(id) ==
    /\ HasId(elements, id)
    /\ elements' = RemoveById(elements, id)
    /\ selectedElementId' = IF selectedElementId = id THEN Null ELSE selectedElementId
    /\ Edit
    /\ UNCHANGED << animationSteps, isLoading, chatHistory >>
    /\ UNCHANGED << history, themeVars, serviceVars, stageVars >>
    /\ TimelineEffect

\* updateElement(selectedElement.id, {x: ...}) from the properties panel
UpdateElement(x) ==
    /\ SelectedIndex > 0
    /\ elements' = UpdateById(elements, selectedElementId, [x |-> x])
    /\ elements' # elements
    /\ Edit
    /\ UNCHANGED << selectedElementId, animationSteps, isLoading, chatHistory >>
    /\ UNCHANGED << history, themeVars, serviceVars, stageVars >>
    /\ TimelineEffect

\* dragItem.current / dragOverItem.current === null; rows are numbered from 1
NoRow == 0

\* (variant: the dragged row and the row it is dropped on change places)
SortedElements_swap(els, dragItem, dragOverItem) ==
    IF dragItem = NoRow \/ dragOverItem = NoRow THEN els
    ELSE [els EXCEPT ![dragItem] = els[dragOverItem], ![dragOverItem] = els[dragItem]]

\* the element list after handleSort: as it was when a ref is null, else
\* newElements after the two splices
SortedElements(els, dragItem, dragOverItem) ==
    IF dragItem = NoRow \/ dragOverItem = NoRow THEN els
    ELSE LET draggedItemContent == els[dragItem]
             without == SubSeq(els, 1, dragItem - 1) \o SubSeq(els, dragItem + 1, Len(els))
         IN  SubSeq(without, 1, dragOverItem - 1) \o << draggedItemContent >>
                 \o SubSeq(without, dragOverItem, Len(without))

\* a drag of row i: dragItem = i on drag start, dragOverItem = j when the drag
\* enters row j (NoRow when it enters none), then handleSort on drag end; the
\* refs are null again after a sort and dragItem is set anew by the next drag
HandleSort(i, j) ==
    /\ i \in 1..Len(elements)
    /\ j \in { NoRow } \cup 1..Len(elements)
    /\ UNCHANGED << selectedElementId, animationSteps, isLoading, chatHistory >>
    /\ UNCHANGED << history, themeVars, serviceVars, stageVars >>
    /\ IF j = NoRow
       THEN /\ Gesture
            /\ UNCHANGED << elements, editedWhilePending >>
            /\ NoTimelineEffect
       ELSE /\ elements' = SortedElements(elements, i, j)
            /\ Edit
            /\ TimelineEffect

(***************************************************************************)
(* Stage                                                                   *)
(***************************************************************************)
\* onSelectElement(el.id) on click or press, onSelectElement(null) on the stage
SelectElement(id) ==
    /\ id = Null \/ HasId(elements, id)
    /\ selectedElementId' = id
    /\ selectedElementId' # selectedElementId
    /\ Gesture
    /\ UNCHANGED << elements, animationSteps, isLoading, chatHistory >>
    /\ UNCHANGED << history, themeVars, serviceVars, editedWhilePending, stageVars >>
    /\ NoTimelineEffect

\* Draggable.onDragEnd of the pressed (hence selected) element
DragEnd(x) ==
    /\ SelectedIndex > 0
    /\ elements' = UpdateById(elements, selectedElementId, [x |-> x])
    /\ elements' # elements
    /\ Edit
    /\ UNCHANGED << selectedElementId, animationSteps, isLoading, chatHistory >>
    /\ UNCHANGED << history, themeVars, serviceVars, stageVars >>
    /\ TimelineEffect

(***************************************************************************)
(* App                                                                     *)
(***************************************************************************)
\* (variant: an id that is taken is accepted)
RenameRejected_allowTaken(els, oldId, newId) == oldId = newId \/ newId = ""

\* if (oldId === newId || !newId) return; if (elements.some(...)) return;
RenameRejected(els, oldId, newId) == oldId = newId \/ newId = "" \/ HasId(els, newId)

\* the ID input of the properties panel: onIdChange(selectedElement.id, value)
HandleIdChange(newId) ==
    /\ SelectedIndex > 0
    /\ LET oldId == selectedElementId IN
        IF RenameRejected(elements, oldId, newId)
        THEN /\ Gesture
             /\ UNCHANGED << elements, selectedElementId, animationSteps, editedWhilePending >>
             /\ NoTimelineEffect
        ELSE /\ elements' = UpdateById(elements, oldId, [id |-> newId])
             /\ selectedElementId' = newId
             /\ animationSteps' = Retarget(animationSteps, IdSelector(oldId), IdSelector(newId))
             /\ Edit
             /\ UNCHANGED isScrollPreview
             /\ TimelineEffect
    /\ UNCHANGED << isLoading, chatHistory >>
    /\ UNCHANGED << history, themeVars, serviceVars, stageVars >>

\* resetElementsToInitialState, then the step is appended
HandleApplyPreset(name) ==
    /\ SelectedIndex > 0
    /\ Len(animationSteps) < MaxSteps
    /\ name \in TextPresets => elements[SelectedIndex].type = "text"
    /\ animationSteps' = animationSteps \o << Preset(name, elements[SelectedIndex]) >>
    /\ Edit
    /\ UNCHANGED << elements, selectedElementId, isLoading, chatHistory >>
    /\ UNCHANGED << history, themeVars, serviceVars, stageVars >>
    /\ TimelineEffect

\* resetElementsToInitialState, then setAnimationSteps([])
HandleClearAnimation ==
    /\ animationSteps # << >>
    /\ animationSteps' = << >>
    /\ Edit
    /\ UNCHANGED << elements, selectedElementId, isLoading, chatHistory >>
    /\ UNCHANGED << history, themeVars, serviceVars, stageVars >>
    /\ TimelineEffect

\* the scroll-preview switch of PresetsPanel: onScrollPreviewToggle
ToggleScrollPreview ==
    /\ SelectedIndex > 0
    /\ isScrollPreview' = ~isScrollPreview
    /\ Gesture
    /\ UNCHANGED << elements, selectedElementId, animationSteps, isLoading, chatHistory >>
    /\ UNCHANGED << history, themeVars, serviceVars, editedWhilePending, isPlaying >>
    /\ TimelineEffect

\* if isActive() pause, else if progress() === 1 restart, else play
HandlePlayPause ==
    /\ HasTimeline(timelineRef)
    /\ timelineRef' = [timelineRef EXCEPT !.state =
                            IF timelineRef.state = "active" THEN "paused" ELSE "active"]
    /\ Gesture
    /\ UNCHANGED << elements, selectedElementId, animationSteps, isLoading, chatHistory >>
    /\ UNCHANGED << history, themeVars, serviceVars, editedWhilePending, stageVars >>
    /\ UNCHANGED << liveTimelines, scrollTriggers >>

\* timelineRef.current?.restart()
HandleRestart ==
    /\ HasTimeline(timelineRef)
    /\ timelineRef.state # "active"
    /\ timelineRef' = [timelineRef EXCEPT !.state = "active"]
    /\ Gesture
    /\ UNCHANGED << elements, selectedElementId, animationSteps, isLoading, chatHistory >>
    /\ UNCHANGED << history, themeVars, serviceVars, editedWhilePending, stageVars >>
    /\ UNCHANGED << liveTimelines, scrollTriggers >>

\* the playing timeline reaches its end: progress() = 1, isActive() = false
TimelineCompletes ==
    /\ HasTimeline(timelineRef)
    /\ timelineRef.state = "active"
    /\ timelineRef' = [timelineRef EXCEPT !.state = "done"]
    /\ UNCHANGED << elements, selectedElementId, animationSteps, isLoading, chatHistory >>
    /\ UNCHANGED << history, themeVars, serviceVars, editedWhilePending, stageVars, gestures >>
    /\ UNCHANGED << liveTimelines, scrollTriggers >>

\* ChatInterface.handleSend, handleSendMessage and sendMessageToAI up to the
\* await; resetElementsToInitialState kills every ScrollTrigger
HandleSend(input, initThrows) ==
    /\ Gesture
    /\ initThrows => chat = Null
    /\ CanSend(input, isLoading)
    /\ isLoading' = TRUE
    /\ chatHistory' = Append(chatHistory, [role |-> "user", text |-> input])
    /\ scrollTriggers' = << >>
    /\ sent' = sent + 1
    /\ editedWhilePending' = FALSE
    /\ LET started == StartCall(chat, input, initThrows) IN
        /\ chat' = started.chat
        /\ requests' = requests + started.requests
        /\ IF started.thrown
           THEN /\ rejected' = rejected + 1
                /\ calls' = calls
           ELSE /\ rejected' = rejected
                /\ calls' = Append(calls, [message |-> input])
    /\ UNCHANGED << elements, selectedElementId, animationSteps >>
    /\ UNCHANGED << themeVars, loads, svc, gsapCode, sortCall, stageVars, timelineRef, liveTimelines >>

\* the response makes the handler call setElements / setAnimationSteps
SetsElements(r) ==
    \/ HasType(r, "element_creation") /\ IsArray(r, "new_elements")
    \/ HasType(r, "element_modification") /\ IsArray(r, "modified_elements")
SetsSteps(r) ==
    /\ HasType(r, "animation")
    /\ IsArray(r, "animation_steps")
    /\ Len(r.animation_steps.items) > 0

\* the request of call i settles and handleSendMessage runs to its end
Receive(i, reply) ==
    /\ i \in 1..Len(calls)
    /\ LET settled == Settle(reply) IN
        IF ~settled.fulfilled
        THEN \* the await throws outside the try: the handler ends there
             /\ rejected' = rejected + 1
             /\ UNCHANGED << elements, animationSteps, chatHistory, isLoading >>
             /\ NoTimelineEffect
        ELSE LET r == settled.value IN
             /\ IF IsNull(r)
                THEN UNCHANGED << elements, animationSteps >>
                ELSE /\ elements' = ElementsAfter(elements, r)
                     /\ animationSteps' = StepsAfter(animationSteps, r)
             /\ chatHistory' = ChatAfter(chatHistory, r)
             /\ isLoading' = FALSE
             /\ rejected' = rejected
             /\ UNCHANGED isScrollPreview
             /\ IF ~IsNull(r) /\ (SetsElements(r) \/ SetsSteps(r))
                THEN TimelineEffect
                ELSE NoTimelineEffect
    /\ Len(elements') <= MaxElements
    /\ Len(animationSteps') <= MaxSteps
    /\ calls' = SubSeq(calls, 1, i - 1) \o SubSeq(calls, i + 1, Len(calls))
    /\ UNCHANGED << selectedElementId, chat, editedWhilePending, gestures >>
    /\ UNCHANGED << sent, requests, loads, svc, gsapCode, sortCall, themeVars, stageVars >>

Next ==
    \/ \E type \in ElementTypes, stamp \in 1..MaxClock : AddElement(type, stamp)
    \/ \E i \in 1..Len(elements) : RemoveElement(elements[i].id)
    \/ \E x \in EditXs : UpdateElement(x)
    \/ \E i \in 1..MaxElements, j \in 0..MaxElements : HandleSort(i, j)
    \/ \E i \in 0..Len(elements) : SelectElement(IF i = 0 THEN Null ELSE elements[i].id)
    \/ \E x \in EditXs : DragEnd(x)
    \/ \E newId \in RenameIds : HandleIdChange(newId)
    \/ \E name \in TextPresets \cup ScrollPresets : HandleApplyPreset(name)
    \/ HandleClearAnimation
    \/ ToggleScrollPreview
    \/ HandlePlayPause
    \/ HandleRestart
    \/ TimelineCompletes
    \/ \E input \in Messages, initThrows \in BOOLEAN : HandleSend(input, initThrows)
    \/ \E i \in 1..MaxGestures, reply \in Replies : Receive(i, reply)

Spec == Init /\ [][Next]_vars

(***************************************************************************)
(* The browser session: the page is loaded, used and loaded again.  Only   *)
(* localStorage outlives a load.                                           *)
(***************************************************************************)
ToggleTheme ==
    /\ loads > 0
    /\ theme' = Toggled(theme)
    /\ storedTheme' = theme'                   \* the [theme] effect
    /\ UNCHANGED << elements, selectedElementId, animationSteps, isLoading, chatHistory >>
    /\ UNCHANGED << history, serviceVars, editedWhilePending, gestures, stageVars >>
    /\ NoTimelineEffect

\* every useState initialiser and the service module run again
LoadPage ==
    /\ loads < MaxLoads
    /\ loads' = loads + 1
    /\ elements' = << >>
    /\ selectedElementId' = Null
    /\ animationSteps' = << >>
    /\ isLoading' = FALSE
    /\ chatHistory' = << Greeting >>
    /\ theme' = InitialTheme(storedTheme)
    /\ storedTheme' = theme'                   \* the [theme] effect
    /\ chat' = Null
    /\ calls' = << >>
    /\ editedWhilePending' = FALSE
    /\ isScrollPreview' = FALSE
    /\ isPlaying' = FALSE
    /\ timelineRef' = PausedTimeline(<< >>)    \* the timeline effect
    /\ liveTimelines' = 1                      \* the page's earlier timeline is gone with it
    /\ scrollTriggers' = << >>
    /\ UNCHANGED << gestures, sent, requests, rejected, svc, gsapCode, sortCall >>

\* the browser before the page is first loaded: localStorage holds what an
\* earlier session of the page left in it, nothing is mounted
SessionInit ==
    /\ storedTheme \in { NoTheme, "dark", "light" }
    /\ theme = NoTheme
    /\ elements = << >>
    /\ selectedElementId = Null
    /\ animationSteps = << >>
    /\ isLoading = FALSE
    /\ chatHistory = << >>
    /\ chat = Null
    /\ calls = << >>
    /\ isScrollPreview = FALSE
    /\ isPlaying = FALSE
    /\ timelineRef = NoTimeline
    /\ liveTimelines = 0
    /\ scrollTriggers = << >>
    /\ loads = 0
    /\ Fresh

SessionNext ==
    \/ LoadPage
    \/ ToggleTheme
    \/ loads > 0 /\ \E type \in ElementTypes, stamp \in 1..MaxClock : AddElement(type, stamp)
    \/ loads > 0 /\ \E name \in TextPresets \cup ScrollPresets : HandleApplyPreset(name)
    \/ loads > 0 /\ \E input \in Messages, initThrows \in BOOLEAN : HandleSend(input, initThrows)
    \/ \E i \in 1..MaxGestures, reply \in Replies : Receive(i, reply)

SessionSpec == SessionInit /\ [][SessionNext]_vars

(***************************************************************************)
(* sendMessageToAI on its own: calls with any message, settled by any      *)
(* reply.                                                                  *)
(***************************************************************************)
ServiceCall(message, initThrows) ==
    /\ svc.phase # "awaiting"
    /\ Gesture
    /\ initThrows => chat = Null
    /\ sent' = sent + 1
    /\ LET started == StartCall(chat, message, initThrows) IN
        /\ chat' = started.chat
        /\ requests' = requests + started.requests
        /\ svc' = IF started.thrown
                  THEN [phase |-> "threw", message |-> message]
                  ELSE [phase |-> "awaiting", message |-> message]
    /\ UNCHANGED << elements, selectedElementId, animationSteps, isLoading, chatHistory >>
    /\ UNCHANGED << themeVars, calls, rejected, editedWhilePending, loads, stageVars, gsapCode, sortCall >>
    /\ NoTimelineEffect

ServiceSettle(reply) ==
    /\ svc.phase = "awaiting"
    /\ svc' = [phase |-> "settled", message |-> svc.message, reply |-> reply,
               outcome |-> Settle(reply)]
    /\ UNCHANGED << elements, selectedElementId, animationSteps, isLoading, chatHistory >>
    /\ UNCHANGED << themeVars, serviceVars, gestures, sent, requests, rejected,
                    editedWhilePending, loads, stageVars, gsapCode, sortCall >>
    /\ NoTimelineEffect

ServiceNext ==
    \/ \E message \in Messages, initThrows \in BOOLEAN : ServiceCall(message, initThrows)
    \/ \E reply \in Replies : ServiceSettle(reply)

ServiceSpec == Init /\ [][ServiceNext]_vars

(***************************************************************************)
(* formatGSAPCode on its own: called with no list or with any list of up   *)
(* to MaxSteps steps, by the CodeOutput of the latest App and by the one   *)
(* of src/App.tsx.                                                         *)
(***************************************************************************)
LegacyPlaceholder == [kind |-> "comment", text |-> "// No animation steps generated yet. Describe an animation in the chat!"]

\* steps.map(step => `tl.to(...)`) of src/App.tsx: every step, in list order
RECURSIVE LegacyStatements(_)
LegacyStatements(steps) ==
    IF steps = << >> THEN << >>
    ELSE << TimelineStatement(Head(steps)) >> \o LegacyStatements(Tail(steps))

LegacyFormatGSAPCode(arg) ==
    IF ~arg.given \/ arg.steps = << >> THEN << LegacyPlaceholder >>
    ELSE << [kind |-> "const tl = gsap.timeline()"] >> \o LegacyStatements(arg.steps)

\* the steps the lists are drawn from: timeline and scroll-trigger steps,
\* with and without a position, one of them with text vars
FormatSteps ==
    { AiSpin, AiScroll,
      Step("#box-1", FALSE, "+=0.5", "stagger"),
      Step(".box", FALSE, "<", "spin"),
      Step("#box-1", TRUE, ">", "fadeIn"),
      Step(".text", FALSE, "", "typewriter") }

StepLists == UNION { [1..n -> FormatSteps] : n \in 0..MaxSteps }

FormatArgs == { NoSteps } \cup { StepList(steps) : steps \in StepLists }

FormatInit ==
    /\ Mounted(NoTheme)
    /\ loads = 1
    /\ gestures = 0
    /\ sent = 0
    /\ requests = 0
    /\ rejected = 0
    /\ editedWhilePending = FALSE
    /\ svc = IdleService
    /\ sortCall = NotCalled
    /\ gsapCode \in { [phase |-> "called", arg |-> arg] : arg \in FormatArgs }

appVars == << elements, selectedElementId, animationSteps, isLoading, chatHistory,
              themeVars, serviceVars, gestures, editedWhilePending, stageVars >>

\* formatGSAPCode(steps) of the latest App returns
Format ==
    /\ gsapCode.phase = "called"
    /\ gsapCode' = [phase |-> "returned", version |-> "latest", arg |-> gsapCode.arg,
                    code |-> formatGSAPCode(gsapCode.arg)]
    /\ UNCHANGED << appVars, sent, requests, rejected, loads, svc, sortCall >>
    /\ NoTimelineEffect

\* formatGSAPCode(steps) of src/App.tsx returns
LegacyFormat ==
    /\ gsapCode.phase = "called"
    /\ gsapCode' = [phase |-> "returned", version |-> "legacy", arg |-> gsapCode.arg,
                    code |-> LegacyFormatGSAPCode(gsapCode.arg)]
    /\ UNCHANGED << appVars, sent, requests, rejected, loads, svc, sortCall >>
    /\ NoTimelineEffect

FormatNext == Format \/ LegacyFormat

FormatSpec == FormatInit /\ [][FormatNext]_vars

(***************************************************************************)
(* handleSort on its own: called with any list of up to MaxElements + 1    *)
(* different elements, each ref null or the number of a row of the list.   *)
(***************************************************************************)
SortElements == { Element("box-1", "box", DefaultX), Element("text-1", "text", 90), AiBox }

SortLists ==
    { els \in UNION { [1..n -> SortElements] : n \in 0..MaxElements + 1 } :
        \A k, l \in 1..Len(els) : els[k] = els[l] => k = l }

SortInit ==
    /\ Mounted(NoTheme)
    /\ loads = 1
    /\ gestures = 0
    /\ sent = 0
    /\ requests = 0
    /\ rejected = 0
    /\ editedWhilePending = FALSE
    /\ svc = IdleService
    /\ gsapCode = NotCalled
    /\ sortCall \in { [phase |-> "called", elements |-> els, dragItem |-> i, dragOverItem |-> j] :
                        els \in SortLists, i \in 0..MaxElements + 1, j \in 0..MaxElements + 1 }
    /\ sortCall.dragItem <= Len(sortCall.elements)
    /\ sortCall.dragOverItem <= Len(sortCall.elements)

\* handleSort returns
Sort ==
    /\ sortCall.phase = "called"
    /\ sortCall' = [phase |-> "returned", elements |-> sortCall.elements,
                    dragItem |-> sortCall.dragItem, dragOverItem |-> sortCall.dragOverItem,
                    newElements |-> SortedElements(sortCall.elements, sortCall.dragItem,
                                                   sortCall.dragOverItem)]
    /\ UNCHANGED << appVars, sent, requests, rejected, loads, svc, gsapCode >>
    /\ NoTimelineEffect

SortNext == Sort

SortSpec == SortInit /\ [][SortNext]_vars

(***************************************************************************)
(* src/App.tsx, the first version of App, with the sendMessageToAI of its  *)
(* time (part_001).  It starts with two elements on the stage, builds the  *)
(* timeline in handleSendMessage (playing at once, not paused), kills it   *)
(* in resetElementsToInitialState and keeps isPlaying by hand.  The array  *)
(* fields of the replies drawn for it hold arrays or are missing.          *)
(***************************************************************************)
LegacyGreeting == [role |-> "model", text |-> "Ready to animate? Just tell me what to do. Try something like: 'Make the image spin' or 'Add a blue circle'."]
LegacyErrorExplanation == "Sorry, I encountered an error trying to process that. Maybe try phrasing it differently?"
LegacyElements == << Element("text-1", "text", DefaultX), Element("image-1", "image", 450) >>

\* the replies without a non-array in an array field
LegacyReplies ==
    { reply \in Replies :
        (reply.status = "resolved" /\ reply.shape \in { "braces", "fenced" } /\ reply.json.ok)
            => \A field \in DOMAIN reply.json.value \cap { "new_elements", "modified_elements", "animation_steps" } :
                    reply.json.value[field].array }

\* the try block of sendMessageToAI (part_001): no ```json block is looked for
LegacyTryBody(reply) ==
    IF reply.status = "rejected" THEN Throws("fetch failed")
    ELSE IF reply.shape = "undefined" THEN Throws("Cannot read properties of undefined")
    ELSE IF reply.shape = "braces"
         THEN IF reply.json.ok THEN Returns(reply.json.value)
              ELSE Throws("Unexpected token")
    ELSE Throws("AI did not return valid JSON.")

LegacySettle(reply) ==
    LET tried == LegacyTryBody(reply) IN
    IF tried.thrown
    THEN Fulfilled([response_type |-> "error", explanation |-> LegacyErrorExplanation,
                    error_message |-> tried.error])
    ELSE Fulfilled(tried.value)

\* aiResponse.<field> is there (an array, hence truthy)
Has(r, field) == field \in DOMAIN r

\* prev.map(el => { const mod = mods.find(m => m.id === el.id); return mod ? {...el, ...mod.props} : el })
LegacyModify(prev, mods) ==
    [k \in 1..Len(prev) |->
        IF \E m \in 1..Len(mods) : mods[m].id = prev[k].id
        THEN Merge(prev[k], mods[CHOOSE m \in 1..Len(mods) :
                                    /\ mods[m].id = prev[k].id
                                    /\ \A n \in 1..(m - 1) : mods[n].id # prev[k].id].props)
        ELSE prev[k]]

LegacyElementsAfter(prev, r) ==
    LET created == IF HasType(r, "element_creation") /\ Has(r, "new_elements")
                   THEN prev \o r.new_elements.items ELSE prev
    IN  IF HasType(r, "element_modification") /\ Has(r, "modified_elements")
        THEN LegacyModify(created, r.modified_elements.items) ELSE created

\* aiResponse.response_type === 'animation' && aiResponse.animation_steps
LegacyAnimates(r) == HasType(r, "animation") /\ Has(r, "animation_steps")

\* (variant: the steps are kept when the response is not an animation)
LegacyStepsAfter_keepOtherwise(prev, r) ==
    IF LegacyAnimates(r) THEN r.animation_steps.items ELSE prev

\* setAnimationSteps(aiResponse.animation_steps), else setAnimationSteps([])
LegacyStepsAfter(prev, r) ==
    IF LegacyAnimates(r) THEN r.animation_steps.items ELSE << >>

\* gsap.timeline({ onComplete, onStart }) with tl.to for each step: it plays
\* from its creation, onStart has not been called yet
PlayingTimeline(steps) == [steps |-> steps, state |-> "created"]

\* what only the latest App changes
latestOnly == << themeVars, loads, svc, gsapCode, sortCall, editedWhilePending, scrollTriggers, isScrollPreview >>

LegacyInit ==
    /\ elements = LegacyElements
    /\ selectedElementId = Null
    /\ animationSteps = << >>
    /\ isLoading = FALSE
    /\ chatHistory = << LegacyGreeting >>
    /\ theme = NoTheme
    /\ storedTheme = NoTheme
    /\ chat = Null
    /\ calls = << >>
    /\ isScrollPreview = FALSE
    /\ isPlaying = FALSE
    /\ timelineRef = NoTimeline
    /\ liveTimelines = 0
    /\ scrollTriggers = << >>
    /\ loads = 1
    /\ Fresh

LegacyAddElement(type, stamp) ==
    /\ Len(elements) < MaxElements
    /\ LET newElement == Element(type \o "-" \o ToString(stamp), type, DefaultX) IN
        /\ elements' = Append(elements, newElement)
        /\ selectedElementId' = newElement.id
    /\ Gesture
    /\ UNCHANGED << animationSteps, isLoading, chatHistory, isPlaying >>
    /\ UNCHANGED << sent, requests, rejected, serviceVars, latestOnly, timelineRef, liveTimelines >>

LegacyRemoveElement(id) ==
    /\ HasId(elements, id)
    /\ elements' = RemoveById(elements, id)
    /\ selectedElementId' = IF selectedElementId = id THEN Null ELSE selectedElementId
    /\ Gesture
    /\ UNCHANGED << animationSteps, isLoading, chatHistory, isPlaying >>
    /\ UNCHANGED << sent, requests, rejected, serviceVars, latestOnly, timelineRef, liveTimelines >>

\* setSelectedElementId(el.id) from the list, onSelectElement on the stage
LegacySelectElement(id) ==
    /\ id = Null \/ HasId(elements, id)
    /\ selectedElementId' = id
    /\ selectedElementId' # selectedElementId
    /\ Gesture
    /\ UNCHANGED << elements, animationSteps, isLoading, chatHistory, isPlaying >>
    /\ UNCHANGED << sent, requests, rejected, serviceVars, latestOnly, timelineRef, liveTimelines >>

\* the ID input: updateElement(selectedElement.id, {id: e.target.value})
LegacyUpdateId(newId) ==
    /\ SelectedIndex > 0
    /\ newId # selectedElementId
    /\ elements' = UpdateById(elements, selectedElementId, [id |-> newId])
    /\ Gesture
    /\ UNCHANGED << selectedElementId, animationSteps, isLoading, chatHistory, isPlaying >>
    /\ UNCHANGED << sent, requests, rejected, serviceVars, latestOnly, timelineRef, liveTimelines >>

\* handleSend, handleSendMessage up to the await; resetElementsToInitialState
\* kills the timeline and clears timelineRef
LegacySend(input, initThrows) ==
    /\ Gesture
    /\ initThrows => chat = Null
    /\ CanSend(input, isLoading)
    /\ isLoading' = TRUE
    /\ chatHistory' = Append(chatHistory, [role |-> "user", text |-> input])
    /\ timelineRef' = NoTimeline
    /\ liveTimelines' = LiveAfterKill(liveTimelines, timelineRef)
    /\ sent' = sent + 1
    /\ LET started == StartCall(chat, input, initThrows) IN
        /\ chat' = started.chat
        /\ requests' = requests + started.requests
        /\ IF started.thrown
           THEN /\ rejected' = rejected + 1
                /\ calls' = calls
           ELSE /\ rejected' = rejected
                /\ calls' = Append(calls, [message |-> input])
    /\ UNCHANGED << elements, selectedElementId, animationSteps, isPlaying, latestOnly >>

\* the request settles and handleSendMessage runs to its end
LegacyReceive(i, reply) ==
    /\ i \in 1..Len(calls)
    /\ LET r == LegacySettle(reply).value IN
        /\ chatHistory' = IF HasExplanation(r)
                           THEN Append(chatHistory, [role |-> "model", text |-> r.explanation])
                           ELSE chatHistory
        /\ elements' = LegacyElementsAfter(elements, r)
        /\ animationSteps' = LegacyStepsAfter(animationSteps, r)
        /\ IF LegacyAnimates(r)
           THEN /\ timelineRef' = PlayingTimeline(r.animation_steps.items)
                /\ liveTimelines' = liveTimelines + 1
           ELSE UNCHANGED << timelineRef, liveTimelines >>
    /\ isLoading' = FALSE
    /\ Len(elements') <= MaxElements
    /\ Len(animationSteps') <= MaxSteps
    /\ calls' = SubSeq(calls, 1, i - 1) \o SubSeq(calls, i + 1, Len(calls))
    /\ UNCHANGED << selectedElementId, chat, gestures, isPlaying >>
    /\ UNCHANGED << sent, requests, rejected, latestOnly >>

\* the timeline callbacks onStart and onComplete
LegacyOnStart ==
    /\ HasTimeline(timelineRef)
    /\ timelineRef.state = "created"
    /\ timelineRef' = [timelineRef EXCEPT !.state = "active"]
    /\ isPlaying' = TRUE
    /\ UNCHANGED << elements, selectedElementId, animationSteps, isLoading, chatHistory >>
    /\ UNCHANGED << sent, requests, rejected, serviceVars, latestOnly, liveTimelines, gestures >>

LegacyOnComplete ==
    /\ HasTimeline(timelineRef)
    /\ timelineRef.state = "active"
    /\ timelineRef' = [timelineRef EXCEPT !.state = "done"]
    /\ isPlaying' = FALSE
    /\ UNCHANGED << elements, selectedElementId, animationSteps, isLoading, chatHistory >>
    /\ UNCHANGED << sent, requests, rejected, serviceVars, latestOnly, liveTimelines, gestures >>

\* if (!timelineRef.current) return; pause, or restart / play; setIsPlaying(!isPlaying)
LegacyPlayPause ==
    /\ HasTimeline(timelineRef)
    /\ timelineRef' = [timelineRef EXCEPT !.state =
                            IF isPlaying
                            THEN (IF @ \in { "created", "active" } THEN "paused" ELSE @)
                            ELSE (IF @ = "done" THEN "created"
                                  ELSE IF @ = "paused" THEN "active" ELSE @)]
    /\ isPlaying' = ~isPlaying
    /\ Gesture
    /\ UNCHANGED << elements, selectedElementId, animationSteps, isLoading, chatHistory >>
    /\ UNCHANGED << sent, requests, rejected, serviceVars, latestOnly, liveTimelines >>

\* timelineRef.current?.restart(); setIsPlaying(true)
LegacyRestart ==
    /\ timelineRef' = IF HasTimeline(timelineRef)
                       THEN [timelineRef EXCEPT !.state = "created"]
                       ELSE timelineRef
    /\ isPlaying' = TRUE
    /\ Gesture
    /\ UNCHANGED << elements, selectedElementId, animationSteps, isLoading, chatHistory >>
    /\ UNCHANGED << sent, requests, rejected, serviceVars, latestOnly, liveTimelines >>

LegacyNext ==
    \/ \E type \in ElementTypes, stamp \in 1..MaxClock : LegacyAddElement(type, stamp)
    \/ \E i \in 1..Len(elements) : LegacyRemoveElement(elements[i].id)
    \/ \E i \in 0..Len(elements) : LegacySelectElement(IF i = 0 THEN Null ELSE elements[i].id)
    \/ \E newId \in RenameIds : LegacyUpdateId(newId)
    \/ \E input \in Messages, initThrows \in BOOLEAN : LegacySend(input, initThrows)
    \/ \E i \in 1..MaxGestures, reply \in LegacyReplies : LegacyReceive(i, reply)
    \/ LegacyOnStart
    \/ LegacyOnComplete
    \/ LegacyPlayPause
    \/ LegacyRestart

LegacySpec == LegacyInit /\ [][LegacyNext]_vars

(***************************************************************************)
(* Properties.                                                             *)
(***************************************************************************)
IsPrefix(s, t) == Len(s) <= Len(t) /\ SubSeq(t, 1, Len(s)) = s

\* the value a reply parses to, when it parses
ReplyParses(reply) ==
    /\ reply.status = "resolved"
    /\ reply.shape \in { "braces", "fenced" }
    /\ reply.json.ok
ReplyValue(reply) == reply.json.value

\* the reply is an 'animation' response whose animation_steps is a non-empty array
AddsSteps(reply) ==
    /\ ReplyParses(reply)
    /\ ~IsNull(ReplyValue(reply))
    /\ HasType(ReplyValue(reply), "animation")
    /\ IsArray(ReplyValue(reply), "animation_steps")
    /\ ReplyValue(reply).animation_steps.items # << >>

\* the reply is an 'element_creation' response whose new_elements is an array
CreatesElements(reply) ==
    /\ ReplyParses(reply)
    /\ ~IsNull(ReplyValue(reply))
    /\ HasType(ReplyValue(reply), "element_creation")
    /\ IsArray(ReplyValue(reply), "new_elements")

\* the fields an 'element_modification' reply names in its props
ModifiedFields(reply) ==
    IF /\ ReplyParses(reply)
       /\ ~IsNull(ReplyValue(reply))
       /\ HasType(ReplyValue(reply), "element_modification")
       /\ IsArray(ReplyValue(reply), "modified_elements")
    THEN LET mods == ReplyValue(reply).modified_elements.items
         IN  UNION { DOMAIN mods[k].props : k \in 1..Len(mods) }
    ELSE { }

ClassSelectors == { "." \o type : type \in ElementTypes }
IsIdSelector(target) == target \notin ClassSelectors

ModelSaid(text) == chatHistory[Len(chatHistory)] = [role |-> "model", text |-> text]

\* C1: at most one model request is in flight at any time, and one is in
\* flight only between the send that sets isLoading and the end of its handler.
C1_OneRequestInFlight == Len(calls) <= 1 /\ (calls # << >> => isLoading)

\* a second send was accepted after the first was answered, and is in flight
C1_Witness == sent = 2 /\ requests = 2 /\ Len(calls) = 1 /\ isLoading

\* C2: applying an 'animation' response with a non-empty animation_steps array
\* makes the step list the previous list followed by the response's steps in
\* their order, and applying a preset appends its one step; so the list is the
\* concatenation of the added steps in arrival order.
C2_StepsAppended ==
    [][ /\ \A i \in 1..Len(calls), reply \in Replies :
              Receive(i, reply) /\ AddsSteps(reply)
                  => animationSteps' = animationSteps \o ReplyValue(reply).animation_steps.items
        /\ \A name \in TextPresets \cup ScrollPresets :
              HandleApplyPreset(name)
                  => /\ Len(animationSteps') = Len(animationSteps) + 1
                     /\ IsPrefix(animationSteps, animationSteps')
                     /\ animationSteps'[Len(animationSteps')].target = IdSelector(selectedElementId)
      ]_vars

\* a preset's step followed by the step of an applied 'animation' response
C2_Witness ==
    /\ Len(animationSteps) = 2
    /\ animationSteps[1].vars \in { "stagger", "fadeIn" }
    /\ animationSteps[2] = AiSpin
    /\ calls = << >>

\* C3: every step whose target is an id selector names an element of the
\* element list.
C3_StepsNameElements ==
    \A k \in 1..Len(animationSteps) :
        IsIdSelector(animationSteps[k].target)
            => \E e \in 1..Len(elements) : IdSelector(elements[e].id) = animationSteps[k].target

\* C4: a response is applied on top of the lists as they are when it arrives:
\* the steps present stay as a prefix, every element present keeps its place,
\* and keeps every field but those an 'element_modification' names; the
\* selection is kept.
C4_AppliedOnTop ==
    [][ \A i \in 1..Len(calls), reply \in Replies :
            Receive(i, reply)
                => /\ IsPrefix(animationSteps, animationSteps')
                   /\ Len(elements') >= Len(elements)
                   /\ \A k \in 1..Len(elements) :
                        \A f \in DOMAIN elements[k] \ ModifiedFields(reply) :
                            /\ f \in DOMAIN elements'[k]
                            /\ elements'[k][f] = elements[k][f]
                   /\ selectedElementId' = selectedElementId
      ]_vars

\* the user dragged text-1 while the request was pending, and the element the
\* response created was added after it
C4_Witness ==
    /\ editedWhilePending
    /\ calls = << >>
    /\ sent = 1
    /\ elements = << Element("text-1", "text", 90), AiBox >>

\* C5: isLoading is true only while a request is pending, whatever the outcome
\* of the model call, so the chat never stays locked.
C5_LoadingOnlyWhilePending == isLoading => calls # << >>

\* the reply is one of the failures C6 names: the call failed, the text is not
\* JSON (no text, no { ... } text), or JSON.parse failed on it
FailedReply(reply) ==
    \/ reply.status = "rejected"
    \/ reply.shape # "braces"
    \/ ~reply.json.ok

\* the text is not JSON, and holds a ```json block that parses
FencedJson(reply) ==
    /\ reply.status = "resolved"
    /\ reply.shape = "fenced"
    /\ reply.json.ok

IsErrorResponse(v) ==
    /\ ~IsNull(v)
    /\ HasType(v, "error")
    /\ HasExplanation(v)
    /\ "error_message" \in DOMAIN v

\* C6 as stated: once the model call is attempted the promise is fulfilled, and
\* a failed call, a reply that is not JSON and a JSON parse failure all give an
\* 'error' response with an explanation and an error_message.
C6_FailuresBecomeErrors ==
    svc.phase = "settled"
        => /\ svc.outcome.fulfilled
           /\ FailedReply(svc.reply) => IsErrorResponse(svc.outcome.value)

\* C6: once the model call is attempted the promise is always fulfilled; a
\* failed call, a JSON parse failure and a reply that is not JSON give an
\* 'error' response with an explanation and an error_message, except a reply
\* that is not JSON but holds a ```json block that parses, which gives the
\* parsed block as the response.
C6_FailuresBecomeErrorsUnlessFenced ==
    svc.phase = "settled"
        => /\ Trim(svc.message) # ""
           /\ svc.outcome.fulfilled
           /\ FailedReply(svc.reply) /\ ~FencedJson(svc.reply)
                => IsErrorResponse(svc.outcome.value)
           /\ FencedJson(svc.reply) => svc.outcome.value = svc.reply.json.value

\* a reply without JSON was turned into an error response
C6_Witness ==
    /\ svc.phase = "settled"
    /\ svc.reply.status = "resolved"
    /\ svc.reply.shape = "prose"
    /\ svc.outcome.fulfilled
    /\ svc.outcome.value.error_message = "AI did not return valid JSON."

\* C7 as stated: each accepted send has caused exactly one request.
C7_OneRequestPerSend == requests = sent

\* C7: each accepted send causes at most one request: exactly one when the
\* chat session exists or can be created, none when creating it throws (the
\* handler ends with that exception); a reply is only ever awaited for a
\* request that was made.
C7_OneRequestPerStartedCall ==
    /\ requests = sent - rejected
    /\ rejected > 0 => chat = Null
    /\ Len(calls) <= requests

\* two sends, two requests, the first of which failed and was not made again
C7_Witness ==
    /\ sent = 2
    /\ requests = 2
    /\ Len(calls) = 1
    /\ chatHistory[3] = [role |-> "model", text |-> ErrorExplanation]

\* C8: applying an 'element_creation' response whose new_elements is an array
\* appends exactly those elements, as received and in their order, and leaves
\* the elements already there in place and unchanged.
C8_CreatedVerbatim ==
    [][ \A i \in 1..Len(calls), reply \in Replies :
            Receive(i, reply) /\ CreatesElements(reply)
                => elements' = elements \o ReplyValue(reply).new_elements.items
      ]_vars

\* the response's element was appended though its id is the one of the
\* user's box
C8_Witness ==
    /\ elements = << Element("box-1", "box", DefaultX), AiTwin >>
    /\ ModelSaid("Okay.")

\* C9: while the page is mounted the stored 'theme' equals the current theme
\* and two toggles in a row give the theme back; a load starts with the stored
\* theme, or 'dark' when nothing is stored, and with the initial element list,
\* step list and chat history.
C9_ThemeSurvivesReload ==
    /\ [](loads > 0 => /\ storedTheme = theme
                       /\ Toggled(Toggled(theme)) = theme)
    /\ [][ loads' = loads + 1
              => /\ theme' = IF storedTheme = NoTheme THEN "dark" ELSE storedTheme
                 /\ elements' = << >>
                 /\ animationSteps' = << >>
                 /\ chatHistory' = << Greeting >>
         ]_vars

\* the page was used, the theme toggled to light, and the page loaded again
C9_Witness ==
    /\ loads = 2
    /\ sent > 0
    /\ gestures > 0
    /\ theme = "light"
    /\ storedTheme = "light"
    /\ elements = << >>
    /\ chatHistory = << Greeting >>

\* C10: handleSendMessage changes the step list only when the response is an
\* 'animation' whose animation_steps is a non-empty array: the send itself and
\* every other response leave the step list unchanged.
C10_StepsKeptOtherwise ==
    [][ /\ \A i \in 1..Len(calls), reply \in Replies :
              Receive(i, reply) /\ ~AddsSteps(reply) => animationSteps' = animationSteps
        /\ sent' = sent + 1 => animationSteps' = animationSteps
      ]_vars

\* an error response was applied and the steps are still there
C10_Witness ==
    /\ animationSteps # << >>
    /\ calls = << >>
    /\ ModelSaid(ErrorExplanation)

\* the rename the claims call rejected: newId empty, the old id, or taken
RejectedRename(newId) ==
    newId = "" \/ newId = selectedElementId \/ HasId(elements, newId)

\* C12: a successful rename gives the element(s) named oldId the id newId and
\* nothing else, points every step targeting '#oldId' at '#newId' and changes
\* nothing else of any step, and moves the selection to newId.
C12_RenameRetargets ==
    [][ \A newId \in RenameIds :
            HandleIdChange(newId) /\ ~RejectedRename(newId)
                => LET oldId == selectedElementId IN
                   /\ Len(elements') = Len(elements)
                   /\ \A k \in 1..Len(elements) :
                        elements'[k] = IF elements[k].id = oldId
                                       THEN [elements[k] EXCEPT !.id = newId]
                                       ELSE elements[k]
                   /\ Len(animationSteps') = Len(animationSteps)
                   /\ \A k \in 1..Len(animationSteps) :
                        animationSteps'[k] = IF animationSteps[k].target = IdSelector(oldId)
                                             THEN [animationSteps[k] EXCEPT !.target = IdSelector(newId)]
                                             ELSE animationSteps[k]
                   /\ selectedElementId' = newId
      ]_vars

\* text-1 was renamed to hero after a preset had targeted it
C12_Witness ==
    /\ Len(elements) = 1
    /\ elements[1].id = "hero"
    /\ selectedElementId = "hero"
    /\ Len(animationSteps) = 1
    /\ animationSteps[1].target = "#hero"

\* C13: a rejected rename changes neither the element list, nor the
\* selection, nor the step list.
C13_RejectedRenameKeepsState ==
    [][ \A newId \in RenameIds :
            HandleIdChange(newId) /\ RejectedRename(newId)
                => UNCHANGED << elements, selectedElementId, animationSteps >>
      ]_vars

\* box-1 was added and the second key press changed nothing: the ID input
\* was given an id that was refused
C13_Witness ==
    /\ gestures = 2
    /\ elements = << Element("box-1", "box", DefaultX) >>
    /\ selectedElementId = "box-1"
    /\ animationSteps = << >>
    /\ sent = 0
    /\ ~isScrollPreview
    /\ timelineRef.state = "paused"

\* C14: the ids of the elements of the list are pairwise distinct.
C14_IdsDistinct ==
    \A j, k \in 1..Len(elements) : elements[j].id = elements[k].id => j = k

\* C17: selectedElementId is null or the id of an element of the list.
C17_SelectionExists == selectedElementId = Null \/ HasId(elements, selectedElementId)

\* the indices of the steps of a list that have (scroll = TRUE) or have not
\* (scroll = FALSE) a vars.scrollTrigger, and the steps at them in list order
IndicesOf(steps, scroll) == { k \in 1..Len(steps) : steps[k].scrollTrigger = scroll }
InListOrder(steps, idx) ==
    [n \in 1..Cardinality(idx) |->
        steps[CHOOSE k \in idx : Cardinality({ j \in idx : j < k }) = n - 1]]

\* the steps with live scroll-triggered animations
LiveScrollSteps == [k \in 1..Len(scrollTriggers) |-> scrollTriggers[k].step]

\* C15: there is exactly one live timeline, the one timelineRef holds, and it
\* holds exactly the steps without vars.scrollTrigger in their order in the
\* step list; each step that changes the step list, the element list or the
\* scroll-preview flag leaves a paused timeline and the scroll triggers of the
\* current scroll steps only.
C15_TimelineRebuilt ==
    /\ [](/\ liveTimelines = 1
          /\ HasTimeline(timelineRef)
          /\ timelineRef.steps = InListOrder(animationSteps, IndicesOf(animationSteps, FALSE)))
    /\ [][ (animationSteps' # animationSteps \/ elements' # elements
                \/ isScrollPreview' # isScrollPreview)
              => /\ timelineRef'.state = "paused"
                 /\ LiveScrollSteps' = InListOrder(animationSteps', IndicesOf(animationSteps', TRUE))
                 /\ \A k \in 1..Len(scrollTriggers') :
                        scrollTriggers'[k].scroller = IF isScrollPreview' THEN "#stage-parent" ELSE "window"
         ]_vars

\* a response added a timeline step and a scroll step: the timeline was
\* rebuilt with the first only
C15_Witness ==
    /\ animationSteps = << AiSpin, AiScroll >>
    /\ timelineRef = PausedTimeline(<< AiSpin >>)
    /\ LiveScrollSteps = << AiScroll >>
    /\ liveTimelines = 1

\* C16: whenever no request is pending, every step of the list that has
\* vars.scrollTrigger has a live scroll-triggered animation.
C16_ScrollStepsLive ==
    (calls = << >> /\ ~isLoading)
        => LiveScrollSteps = InListOrder(animationSteps, IndicesOf(animationSteps, TRUE))

\* the statements of one kind of an exported code, in their order
RECURSIVE StatementsOf(_, _)
StatementsOf(code, kind) ==
    IF code = << >> THEN << >>
    ELSE IF Head(code).kind = kind THEN << Head(code) >> \o StatementsOf(Tail(code), kind)
         ELSE StatementsOf(Tail(code), kind)

\* what a statement and a step say to animate: the target and the vars
Animates(x) == [target |-> x.target, vars |-> x.vars, scrollTrigger |-> x.scrollTrigger]
AnimatedBy(xs) == [k \in 1..Len(xs) |-> Animates(xs[k])]

C11_StepsReplaced ==
    [][ \A i \in 1..Len(calls), reply \in LegacyReplies :
            LegacyReceive(i, reply)
                => LET r == LegacySettle(reply).value IN
                   IF HasType(r, "animation") /\ "animation_steps" \in DOMAIN r
                   THEN animationSteps' = r.animation_steps.items
                   ELSE animationSteps' = << >>
      ]_vars

\* the second response applied is an animation with one step: the list and
\* the timeline hold that step and nothing of the first response
C11_Witness ==
    /\ sent = 2
    /\ calls = << >>
    /\ animationSteps = << AiSpin >>
    /\ timelineRef = PlayingTimeline(<< AiSpin >>)
    /\ liveTimelines = 1

\* C18: in src/App.tsx, selectedElementId is null or the id of an element
\* of the list, also after the ID field of the selected element is edited.
C18_LegacySelectionExists == selectedElementId = Null \/ HasId(elements, selectedElementId)

\* C19: in src/App.tsx, isPlaying is true only while timelineRef holds a
\* timeline.
C19_PlayingHasTimeline == isPlaying => HasTimeline(timelineRef)

\* the to(...) statements of an exported code, in their order
RECURSIVE ToStatements(_)
ToStatements(code) ==
    IF code = << >> THEN << >>
    ELSE IF Head(code).kind \in { "tl.to", "gsap.to" }
         THEN << Head(code) >> \o ToStatements(Tail(code))
         ELSE ToStatements(Tail(code))

\* C21: what the latest formatGSAPCode returns for a non-empty step list holds
\* one to(...) statement per step: first a tl.to statement for each step
\* without vars.scrollTrigger, in list order, then a gsap.to statement for each
\* step with it, in list order; the `const tl = gsap.timeline()` line is there
\* once when a timeline step exists and not otherwise; a statement prints a
\* position only if its step has one, and then that one.  For an empty list
\* and for no list it returns the placeholder comment alone.
C21_OneStatementPerStep ==
    (gsapCode.phase = "returned" /\ gsapCode.version = "latest") =>
        LET arg == gsapCode.arg
            code == gsapCode.code
        IN  IF ~arg.given \/ arg.steps = << >>
            THEN code = << Placeholder >>
            ELSE LET steps == arg.steps
                     tos == ToStatements(code)
                     timelineCount == Cardinality(IndicesOf(steps, FALSE))
                     ordered == InListOrder(steps, IndicesOf(steps, FALSE))
                                    \o InListOrder(steps, IndicesOf(steps, TRUE))
                 IN  /\ Len(tos) = Len(steps)
                     /\ \A k \in 1..Len(tos) :
                            /\ tos[k].kind = (IF k <= timelineCount THEN "tl.to" ELSE "gsap.to")
                            /\ Animates(tos[k]) = Animates(ordered[k])
                            /\ "position" \in DOMAIN tos[k]
                                   => (ordered[k].position # "" /\ tos[k].position = ordered[k].position)
                     /\ Len(StatementsOf(code, "const tl = gsap.timeline()"))
                            = (IF timelineCount > 0 THEN 1 ELSE 0)
                     /\ StatementsOf(code, "comment") = << >>

\* a list of a positioned scroll-trigger step followed by a positioned timeline
\* step was formatted: the timeline statement comes first and prints its
\* position, the scroll statement follows without one
C21_Witness ==
    /\ gsapCode.phase = "returned"
    /\ gsapCode.version = "latest"
    /\ gsapCode.arg = StepList(<< Step("#box-1", TRUE, ">", "fadeIn"),
                                  Step("#box-1", FALSE, "+=0.5", "stagger") >>)
    /\ Len(gsapCode.code) = 4
    /\ gsapCode.code[2].kind = "const tl = gsap.timeline()"
    /\ gsapCode.code[3].kind = "tl.to"
    /\ gsapCode.code[3].position = "+=0.5"
    /\ gsapCode.code[4].kind = "gsap.to"
    /\ "position" \notin DOMAIN gsapCode.code[4]

\* the greeting is first and every later model message follows a user message
ChatOrdered ==
    /\ chatHistory # << >>
    /\ chatHistory[1] = Greeting
    /\ \A k \in 2..Len(chatHistory) :
           chatHistory[k].role = "model" => chatHistory[k - 1].role = "user"

\* a step keeps the messages there are, a send adds the user's message at the
\* end, and a step that neither sends nor ends a handler adds nothing
ChatAppendOnly ==
    /\ IsPrefix(chatHistory, chatHistory')
    /\ \A input \in Messages, initThrows \in BOOLEAN :
           HandleSend(input, initThrows)
               => chatHistory' = Append(chatHistory, [role |-> "user", text |-> input])
    /\ (sent' = sent /\ calls' = calls) => chatHistory' = chatHistory

\* C22 as stated: the chat history is append-only and ordered; a send appends
\* the user's message, and the end of its handler appends one model message
\* with the response's explanation when the response has a non-empty one, and
\* nothing otherwise.
C22_OnlyExplanations ==
    /\ []ChatOrdered
    /\ [][ /\ ChatAppendOnly
           /\ \A i \in 1..Len(calls), reply \in Replies :
                  Receive(i, reply)
                      => LET response == Settle(reply) IN
                         IF response.fulfilled /\ ~IsNull(response.value)
                                /\ HasExplanation(response.value)
                         THEN chatHistory' = Append(chatHistory,
                                  [role |-> "model", text |-> response.value.explanation])
                         ELSE chatHistory' = chatHistory ]_vars

\* C22, amended: the chat history is append-only and ordered; a send appends
\* the user's message, and the end of its handler appends at most one model
\* message: the response's explanation when it has a non-empty one, the apology
\* of the catch block when reading the response throws (the response is null),
\* and nothing otherwise.
C22_AppendOnlyHistory ==
    /\ []ChatOrdered
    /\ [][ /\ ChatAppendOnly
           /\ \A i \in 1..Len(calls), reply \in Replies :
                  Receive(i, reply)
                      => LET response == Settle(reply) IN
                         IF response.fulfilled /\ IsNull(response.value)
                         THEN chatHistory' = Append(chatHistory,
                                  [role |-> "model", text |-> Apology])
                         ELSE IF response.fulfilled /\ HasExplanation(response.value)
                         THEN chatHistory' = Append(chatHistory,
                                  [role |-> "model", text |-> response.value.explanation])
                         ELSE chatHistory' = chatHistory ]_vars

\* two sends were answered, one with an explanation and one with null; a third
\* message was sent and answered without an explanation
C22_Witness ==
    /\ Len(chatHistory) = 6
    /\ chatHistory[1] = Greeting
    /\ chatHistory[2] = [role |-> "user", text |-> "spin it"]
    /\ chatHistory[3] = [role |-> "model", text |-> "Okay."]
    /\ chatHistory[4] = [role |-> "user", text |-> "spin it"]
    /\ chatHistory[5] = [role |-> "model", text |-> Apology]
    /\ chatHistory[6] = [role |-> "user", text |-> "spin it"]
    /\ ~isLoading
    /\ calls = << >>

\* a list without its k-th element
Without(s, k) == SubSeq(s, 1, k - 1) \o SubSeq(s, k + 1, Len(s))

\* how often an element is in a list
Occurrences(s, e) == Cardinality({ k \in 1..Len(s) : s[k] = e })

\* C23: with both refs set, handleSort with drag row i and drop row j gives a
\* list of the same length that holds the same elements, has the dragged
\* element at row j, and keeps the other elements in their order; with a ref
\* unset it gives the list as it was.
C23_SortIsPermutation ==
    sortCall.phase = "returned" =>
        LET els == sortCall.elements
            i == sortCall.dragItem
            j == sortCall.dragOverItem
            newElements == sortCall.newElements
        IN  IF i = NoRow \/ j = NoRow
            THEN newElements = els
            ELSE /\ Len(newElements) = Len(els)
                 /\ \A e \in SortElements : Occurrences(newElements, e) = Occurrences(els, e)
                 /\ newElements[j] = els[i]
                 /\ Without(newElements, j) = Without(els, i)

\* the first of three rows was dragged onto the third: it is third now and the
\* other two moved up in their order
C23_Witness ==
    /\ sortCall.phase = "returned"
    /\ sortCall.dragItem = 1
    /\ sortCall.dragOverItem = 3
    /\ Len(sortCall.elements) = 3
    /\ sortCall.newElements = << sortCall.elements[2], sortCall.elements[3], sortCall.elements[1] >>
====
